---- MODULE Spec2Model ----
(***************************************************************************)
(* Model of tokio-quiche/src/metrics/mod.rs: the Metrics trait as          *)
(* implemented by DefaultMetrics, the metric families declared in the      *)
(* #[metrics] modules quic and tokio, and quic_expensive_metrics_ip_reduce.*)
(***************************************************************************)
EXTENDS Integers, Sequences, FiniteSets, TLC

VARIABLES
    cells,            \* heap of metric accumulators, in creation order
    family,           \* series key -> index into cells (0: not created)
    report_optional,  \* whether the optional registry is reported
    done,             \* number of completed primitive operations per call
    budget,           \* per caller: calls it may still make
    pc, req, handle,  \* per caller: position, pending call, held handle
    rpc, ip, net, net2 \* reducer run: position, input, result, result of re-reducing

vars == <<cells, family, report_optional, done, budget, pc, req, handle,
          rpc, ip, net, net2>>

(***************************************************************************)
(* Addresses.  std::net::IpAddr is V4 (4 octets) or V6 (8 16-bit segments);*)
(* an address is [fam, w] with w the sequence of its chunks, most          *)
(* significant first.                                                      *)
(***************************************************************************)
RECURSIVE Pow2(_)
Pow2(n) == IF n = 0 THEN 1 ELSE 2 * Pow2(n - 1)

V4(a, b, c, d) == [fam |-> "v4", w |-> <<a, b, c, d>>]
V6(s) == [fam |-> "v6", w |-> s]

is_ipv4(a) == a.fam = "v4"

\* width in bits of one chunk of the address, and of the whole address
ChunkBits(a) == IF is_ipv4(a) THEN 8 ELSE 16
AddrBits(a) == IF is_ipv4(a) THEN 32 ELSE 128

QUIC_INITIAL_METRICS_V4_PREFIX == 20
QUIC_INITIAL_METRICS_V6_PREFIX == 32

None == [some |-> FALSE]
Some(x) == [some |-> TRUE, val |-> x]

\* x & mask, mask having the top k of width bits set, by a right shift that
\* is never shifted back (a faulty variant of MaskChunk)
MaskChunkShiftOnly(x, width, k) == x \div Pow2(width - k)

\* x & mask, mask having the top k of width bits set
MaskChunk(x, width, k) == x - (x % Pow2(width - k))

\* bits of the prefix that fall into chunk i (1-based)
PrefixBitsIn(i, width, prefix) ==
    LET left == prefix - width * (i - 1)
    IN  IF left <= 0 THEN 0 ELSE IF left >= width THEN width ELSE left

\* IpNetwork::new: Err when the prefix is longer than the address
IpNetworkNew(a, prefix) ==
    IF prefix > AddrBits(a) THEN None ELSE Some([addr |-> a, prefix |-> prefix])

\* IpNetwork::network: the address and the prefix mask, same family
Network(n) ==
    [fam |-> n.addr.fam,
     w |-> [i \in DOMAIN n.addr.w |->
              MaskChunk(n.addr.w[i], ChunkBits(n.addr),
                        PrefixBitsIn(i, ChunkBits(n.addr), n.prefix))]]

\* a faulty variant of PrefixFor: the two prefix lengths swapped
PrefixForSwapped(a) ==
    IF is_ipv4(a) THEN QUIC_INITIAL_METRICS_V6_PREFIX
    ELSE QUIC_INITIAL_METRICS_V4_PREFIX

\* a faulty variant of PrefixFor: a prefix longer than an IPv4 address
PrefixForTooLong(a) ==
    IF is_ipv4(a) THEN QUIC_INITIAL_METRICS_V6_PREFIX + 1
    ELSE QUIC_INITIAL_METRICS_V6_PREFIX

PrefixFor(a) ==
    IF is_ipv4(a) THEN QUIC_INITIAL_METRICS_V4_PREFIX
    ELSE QUIC_INITIAL_METRICS_V6_PREFIX

quic_expensive_metrics_ip_reduce(a) ==
    LET ip_net == IpNetworkNew(a, PrefixFor(a))
    IN  IF ip_net.some THEN Some(Network(ip_net.val)) ELSE None

(***************************************************************************)
(* Label values.  The enumerations of metrics::labels are rendered to      *)
(* their variant names; a few variants of each stand for the enumeration.  *)
(***************************************************************************)
QuicHandshakeStage == {"ParseInitial", "DeriveKeys"}
QuicWriteError == {"Err", "Partial"}
QuicInvalidInitialPacketError == {"FailedToParse", "TokenValidationFail"}
HandshakeError == {"CryptoFail", "Timeout", "Disconnect"}
H3Error == {"InternalError", "ExcessiveLoad"}
QuicError == {"ProtocolViolation", "FlowControl"}
BoxError == {"BufferTooShort", "InvalidPacket"}
Tasks == {"worker", "router"}

\* reason.to_string(): the error's Display text
to_string(e) ==
    CASE e = "BufferTooShort" -> "buffer too short"
      [] e = "InvalidPacket" -> "invalid packet"
      [] OTHER -> e

NoIp == [fam |-> "none", w |-> <<>>]

\* peers seen by the model: 203.0.113.77, its /20 network 203.0.112.0,
\* and 2001:db8:abcd:ef01::1
PeerIps ==
    { V4(203, 0, 113, 77), V4(203, 0, 112, 0),
      V6(<<8193, 3512, 43981, 61185, 0, 0, 0, 1>>) }

(***************************************************************************)
(* The metrics declared in the #[metrics] modules: kind, #[optional] and   *)
(* the HistogramBuilder buckets.  Bucket boundaries are whole multiples of *)
(* the unit given with each list.                                          *)
(***************************************************************************)
\* unit 1 (streams)
maximum_writable_streams_buckets ==
    <<0, 5, 10, 100, 1000, 2000, 3000, 10000, 20000, 50000>>

\* unit 1E-5 s
handshake_time_seconds_buckets ==
    <<1, 2, 5, 10, 20, 50, 100, 200, 500, 1000, 2000, 5000, 10000, 20000,
      50000, 100000, 200000, 500000>>

\* unit 1 Mbps
max_bandwidth_mbps_buckets ==
    <<0, 1, 2, 5, 10, 20, 50, 100, 200, 300, 500, 750, 1000, 1500, 2000, 2500,
      3000, 3500, 4000, 4500, 5000, 6000, 7000, 10000>>

\* a faulty variant of max_loss_pct_buckets: 0.5 and 0.2 change places
max_loss_pct_buckets_unsorted ==
    <<0, 1, 5, 2, 10, 20, 30, 40, 50, 100, 150, 200, 250, 500, 1000>>

\* unit 0.1 %
max_loss_pct_buckets ==
    <<0, 1, 2, 5, 10, 20, 30, 40, 50, 100, 150, 200, 250, 500, 1000>>

\* unit 1E-4 s
runtime_task_schedule_delay_histogram_buckets ==
    <<0, 1, 2, 3, 4, 5, 6, 7, 8, 9, 10, 100, 200, 400, 800, 1000, 10000>>

\* unit 1E-4 s
runtime_task_poll_duration_histogram_buckets ==
    <<0, 1, 2, 3, 4, 5, 6, 7, 8, 9, 10, 100, 200, 400, 800, 1000, 10000>>

Counter == [kind |-> "counter", optional |-> FALSE, buckets |-> <<>>]
Gauge == [kind |-> "gauge", optional |-> FALSE, buckets |-> <<>>]
Histogram(b) == [kind |-> "histogram", optional |-> FALSE, buckets |-> b]
Optional(d) == [d EXCEPT !.optional = TRUE]

\* mod quic
quic ==
    [ connections_in_memory |-> Gauge,
      maximum_writable_streams |->
          Optional(Histogram(maximum_writable_streams_buckets)),
      handshake_time_seconds |-> Histogram(handshake_time_seconds_buckets),
      write_errors |-> Counter,
      invalid_cid_packet_count |-> Counter,
      accepted_initial_packet_count |-> Counter,
      expensive_accepted_initial_packet_count |-> Optional(Counter),
      rejected_initial_packet_count |-> Counter,
      expensive_rejected_initial_packet_count |-> Optional(Counter),
      utilized_bandwidth |-> Gauge,
      max_bandwidth_mbps |-> Histogram(max_bandwidth_mbps_buckets),
      max_loss_pct |-> Histogram(max_loss_pct_buckets),
      udp_drop_count |-> Counter,
      failed_handshakes |-> Counter,
      local_h3_conn_close_error_count |-> Counter,
      local_quic_conn_close_error_count |-> Counter,
      peer_h3_conn_close_error_count |-> Counter,
      peer_quic_conn_close_error_count |-> Counter ]

\* mod tokio
tokio ==
    [ runtime_task_schedule_delay_histogram |->
          Histogram(runtime_task_schedule_delay_histogram_buckets),
      runtime_task_poll_duration_histogram |->
          Histogram(runtime_task_poll_duration_histogram_buckets),
      runtime_task_total_poll_time_micros |-> Counter ]

\* a series: the metric (module and function name) and its label values
Key(m, name, label, peer_ip) ==
    [mod |-> m, name |-> name, label |-> label, peer_ip |-> peer_ip]

Decl(k) == IF k.mod = "quic" THEN quic[k.name] ELSE tokio[k.name]

(***************************************************************************)
(* impl Metrics for DefaultMetrics: each method forwards to the metric     *)
(* function of mod quic or mod tokio.  c is the call: the method, its      *)
(* label argument (c.arg) and its address argument (c.peer_ip).            *)
(***************************************************************************)
connections_in_memory(c) == Key("quic", "connections_in_memory", "", NoIp)

maximum_writable_streams(c) == Key("quic", "maximum_writable_streams", "", NoIp)

handshake_time_seconds(c) == Key("quic", "handshake_time_seconds", c.arg, NoIp)

write_errors(c) == Key("quic", "write_errors", c.arg, NoIp)

invalid_cid_packet_count(c) ==
    Key("quic", "invalid_cid_packet_count", to_string(c.arg), NoIp)

\* a faulty variant of accepted_initial_packet_count: forwards to a neighbour
accepted_initial_packet_count_miswired(c) ==
    Key("quic", "udp_drop_count", "", NoIp)

accepted_initial_packet_count(c) ==
    Key("quic", "accepted_initial_packet_count", "", NoIp)

\* a faulty variant of expensive_accepted_initial_packet_count: the label is not
\* the address given
expensive_accepted_initial_packet_count_other_ip(c) ==
    Key("quic", "expensive_accepted_initial_packet_count", "",
        V4(c.peer_ip.w[1], 0, 0, 1))

expensive_accepted_initial_packet_count(c) ==
    Key("quic", "expensive_accepted_initial_packet_count", "", c.peer_ip)

rejected_initial_packet_count(c) ==
    Key("quic", "rejected_initial_packet_count", c.arg, NoIp)

expensive_rejected_initial_packet_count(c) ==
    Key("quic", "expensive_rejected_initial_packet_count", c.arg, c.peer_ip)

utilized_bandwidth(c) == Key("quic", "utilized_bandwidth", "", NoIp)

max_bandwidth_mbps(c) == Key("quic", "max_bandwidth_mbps", "", NoIp)

max_loss_pct(c) == Key("quic", "max_loss_pct", "", NoIp)

udp_drop_count(c) == Key("quic", "udp_drop_count", "", NoIp)

\* a faulty variant of failed_handshakes: every failure is counted as a Timeout
failed_handshakes_unlabelled(c) ==
    Key("quic", "failed_handshakes", "Timeout", NoIp)

failed_handshakes(c) == Key("quic", "failed_handshakes", c.arg, NoIp)

local_h3_conn_close_error_count(c) ==
    Key("quic", "local_h3_conn_close_error_count", c.arg, NoIp)

local_quic_conn_close_error_count(c) ==
    Key("quic", "local_quic_conn_close_error_count", c.arg, NoIp)

\* a faulty variant of peer_h3_conn_close_error_count: counts into the local one
peer_h3_conn_close_error_count_as_local(c) ==
    Key("quic", "local_h3_conn_close_error_count", c.arg, NoIp)

peer_h3_conn_close_error_count(c) ==
    Key("quic", "peer_h3_conn_close_error_count", c.arg, NoIp)

peer_quic_conn_close_error_count(c) ==
    Key("quic", "peer_quic_conn_close_error_count", c.arg, NoIp)

tokio_runtime_task_schedule_delay_histogram(c) ==
    Key("tokio", "runtime_task_schedule_delay_histogram", c.arg, NoIp)

tokio_runtime_task_poll_duration_histogram(c) ==
    Key("tokio", "runtime_task_poll_duration_histogram", c.arg, NoIp)

tokio_runtime_task_total_poll_time_micros(c) ==
    Key("tokio", "runtime_task_total_poll_time_micros", c.arg, NoIp)

\* the method call c on a DefaultMetrics: the series it resolves to
DefaultMetrics(c) ==
    CASE c.method = "connections_in_memory" -> connections_in_memory(c)
      [] c.method = "maximum_writable_streams" -> maximum_writable_streams(c)
      [] c.method = "handshake_time_seconds" -> handshake_time_seconds(c)
      [] c.method = "write_errors" -> write_errors(c)
      [] c.method = "invalid_cid_packet_count" -> invalid_cid_packet_count(c)
      [] c.method = "accepted_initial_packet_count" ->
            accepted_initial_packet_count(c)
      [] c.method = "expensive_accepted_initial_packet_count" ->
            expensive_accepted_initial_packet_count(c)
      [] c.method = "rejected_initial_packet_count" ->
            rejected_initial_packet_count(c)
      [] c.method = "expensive_rejected_initial_packet_count" ->
            expensive_rejected_initial_packet_count(c)
      [] c.method = "utilized_bandwidth" -> utilized_bandwidth(c)
      [] c.method = "max_bandwidth_mbps" -> max_bandwidth_mbps(c)
      [] c.method = "max_loss_pct" -> max_loss_pct(c)
      [] c.method = "udp_drop_count" -> udp_drop_count(c)
      [] c.method = "failed_handshakes" -> failed_handshakes(c)
      [] c.method = "local_h3_conn_close_error_count" ->
            local_h3_conn_close_error_count(c)
      [] c.method = "local_quic_conn_close_error_count" ->
            local_quic_conn_close_error_count(c)
      [] c.method = "peer_h3_conn_close_error_count" ->
            peer_h3_conn_close_error_count(c)
      [] c.method = "peer_quic_conn_close_error_count" ->
            peer_quic_conn_close_error_count(c)
      [] c.method = "tokio_runtime_task_schedule_delay_histogram" ->
            tokio_runtime_task_schedule_delay_histogram(c)
      [] c.method = "tokio_runtime_task_poll_duration_histogram" ->
            tokio_runtime_task_poll_duration_histogram(c)
      [] c.method = "tokio_runtime_task_total_poll_time_micros" ->
            tokio_runtime_task_total_poll_time_micros(c)

(***************************************************************************)
(* The registry behind the #[metrics] functions.  A metric function looks  *)
(* its label set up in the metric's family and creates the series when it  *)
(* is absent (get_or_create: a lookup under the read lock, then, on a      *)
(* miss, an insert-if-absent under the write lock); the handle returned    *)
(* shares the series' accumulator.  A metric without labels is the one     *)
(* series of its name, created once in the same way.                       *)
(***************************************************************************)
NewMetric(k) ==
    [key |-> k, kind |-> Decl(k).kind, v |-> 0,
     buckets |-> Decl(k).buckets,
     counts |-> [i \in 1..(Len(Decl(k).buckets) + 1) |-> 0]]

\* the lookup under the read lock: the series' handle, 0 when absent
Lookup(fam, k) == IF k \in DOMAIN fam THEN fam[k] ELSE 0

Insert(fam, cs, k) ==
    [fam |-> [x \in DOMAIN fam \cup {k} |->
                 IF x = k THEN Len(cs) + 1 ELSE fam[x]],
     cells |-> Append(cs, NewMetric(k)),
     id |-> Len(cs) + 1]

\* a faulty variant of EntryOrInsert: the entry is inserted without looking
EntryInsertBlindly(fam, cs, k) == Insert(fam, cs, k)

\* the insert-if-absent under the write lock
EntryOrInsert(fam, cs, k) ==
    IF k \in DOMAIN fam
    THEN [fam |-> fam, cells |-> cs, id |-> fam[k]]
    ELSE Insert(fam, cs, k)

get_or_create(fam, cs, k) ==
    IF Lookup(fam, k) # 0
    THEN [fam |-> fam, cells |-> cs, id |-> Lookup(fam, k)]
    ELSE EntryOrInsert(fam, cs, k)

\* the bucket an observation falls into: the first whose boundary is not
\* below it, the overflow bucket past the last boundary
BucketOf(buckets, x) ==
    IF \E i \in 1..Len(buckets) : x <= buckets[i]
    THEN CHOOSE i \in 1..Len(buckets) :
            x <= buckets[i] /\ \A j \in 1..(i - 1) : x > buckets[j]
    ELSE Len(buckets) + 1

\* the primitive operation of call c on an accumulator
ApplyOp(cell, c) ==
    CASE c.op = "inc" -> [cell EXCEPT !.v = @ + 1]
      [] c.op = "dec" -> [cell EXCEPT !.v = @ - 1]
      [] c.op = "set" -> [cell EXCEPT !.v = c.val]
      [] c.op = "observe" ->
            [cell EXCEPT !.v = @ + 1,
                         !.counts[BucketOf(cell.buckets, c.val)] = @ + 1]

\* a faulty variant of IsReported: optional metrics are reported regardless
IsReportedAlways(k, report) == TRUE

\* whether a series is in the reported output: an #[optional] metric only
\* when optional metrics are reported
IsReported(k, report) == ~Decl(k).optional \/ report

\* the reported series
Collect == { k \in DOMAIN family : IsReported(k, report_optional) }

Value(k) == cells[family[k]].v

(***************************************************************************)
(* Calls.  A call names the trait method, its arguments, the primitive     *)
(* operation applied to the handle it returns, and whether it was made     *)
(* directly or by a packet call site that reduced the peer address first.  *)
(***************************************************************************)
MaxCalls == 2
MaxIncs == 2

\* observed values, in the unit of the histogram or gauge they go to
Samples == {3, 20000}

MkCall(method, arg, peer_ip, via, op, val) ==
    [method |-> method, arg |-> arg, peer_ip |-> peer_ip, via |-> via,
     op |-> op, val |-> val]

Plain(method, arg, op, val) == MkCall(method, arg, NoIp, "direct", op, val)

CounterCalls ==
    {Plain(m, "", "inc", 0) :
        m \in {"accepted_initial_packet_count", "udp_drop_count"}}
    \cup {Plain("write_errors", r, "inc", 0) : r \in QuicWriteError}
    \cup {Plain("invalid_cid_packet_count", r, "inc", 0) : r \in BoxError}
    \cup {Plain("rejected_initial_packet_count", r, "inc", 0) :
            r \in QuicInvalidInitialPacketError}
    \cup {Plain("failed_handshakes", r, "inc", 0) : r \in HandshakeError}
    \cup {Plain(m, r, "inc", 0) :
            m \in {"local_h3_conn_close_error_count",
                   "peer_h3_conn_close_error_count"}, r \in H3Error}
    \cup {Plain(m, r, "inc", 0) :
            m \in {"local_quic_conn_close_error_count",
                   "peer_quic_conn_close_error_count"}, r \in QuicError}
    \cup {Plain("tokio_runtime_task_total_poll_time_micros", t, "inc", 0) :
            t \in Tasks}

GaugeCalls ==
    {Plain("connections_in_memory", "", o, 0) : o \in {"inc", "dec"}}
    \cup {Plain("utilized_bandwidth", "", "set", x) : x \in Samples}

HistogramCalls ==
    {Plain(m, "", "observe", x) :
        m \in {"maximum_writable_streams", "max_bandwidth_mbps",
               "max_loss_pct"}, x \in Samples}
    \cup {Plain("handshake_time_seconds", st, "observe", x) :
            st \in QuicHandshakeStage, x \in Samples}
    \cup {Plain(m, t, "observe", x) :
            m \in {"tokio_runtime_task_schedule_delay_histogram",
                   "tokio_runtime_task_poll_duration_histogram"},
            t \in Tasks, x \in Samples}

ExpensiveCalls(ips, via) ==
    {MkCall("expensive_accepted_initial_packet_count", "", a, via, "inc", 0) :
        a \in ips}
    \cup {MkCall("expensive_rejected_initial_packet_count", r, a, via, "inc", 0) :
            r \in QuicInvalidInitialPacketError, a \in ips}

\* what the trait's user may call
DirectCalls ==
    CounterCalls \cup GaugeCalls \cup HistogramCalls
    \cup ExpensiveCalls(PeerIps, "direct")

ReducedPeerIps ==
    {quic_expensive_metrics_ip_reduce(a).val :
        a \in {b \in PeerIps : quic_expensive_metrics_ip_reduce(b).some}}

AllCalls == DirectCalls \cup ExpensiveCalls(ReducedPeerIps, "call_site")

\* the calls completed so far: Count(d, c) of each call c
Count(d, c) == IF c \in DOMAIN d THEN d[c] ELSE 0

Completed(d, c) ==
    [x \in DOMAIN d \cup {c} |-> IF x = c THEN Count(d, c) + 1 ELSE d[x]]

(***************************************************************************)
(* One caller using the whole trait.                                       *)
(***************************************************************************)
Idle ==
    /\ pc = [t \in {} |-> "idle"]
    /\ req = [t \in {} |-> 0]
    /\ handle = [t \in {} |-> 0]

NoReducerRun ==
    /\ rpc = "off"
    /\ ip = NoIp
    /\ net = None
    /\ net2 = None

Init ==
    /\ cells = <<>>
    /\ family = [k \in {} |-> 0]
    /\ report_optional \in BOOLEAN
    /\ done = [c \in {} |-> 0]
    /\ budget = [t \in {"main"} |-> MaxCalls]
    /\ Idle
    /\ NoReducerRun

\* a gauge is decremented for something it was incremented for
MayApply(fam, cs, c) ==
    c.op = "dec" =>
        /\ DefaultMetrics(c) \in DOMAIN fam
        /\ cs[fam[DefaultMetrics(c)]].v > 0

\* caller t calls method c.method and applies c.op to the handle returned
Emit(t, c) ==
    /\ budget[t] > 0
    /\ MayApply(family, cells, c)
    /\ LET r == get_or_create(family, cells, DefaultMetrics(c))
       IN  /\ family' = r.fam
           /\ cells' = [r.cells EXCEPT ![r.id] = ApplyOp(@, c)]
    /\ done' = Completed(done, c)
    /\ budget' = [budget EXCEPT ![t] = @ - 1]
    /\ UNCHANGED <<report_optional, pc, req, handle, rpc, ip, net, net2>>

\* the packet call sites: the peer address is reduced, and the observation
\* is made with the network address or, without one, not at all
ReduceThenEmit(t, method, reason, addr) ==
    /\ budget[t] > 0
    /\ LET n == quic_expensive_metrics_ip_reduce(addr)
       IN  IF n.some
           THEN Emit(t, MkCall(method, reason, n.val, "call_site", "inc", 0))
           ELSE UNCHANGED vars

AcceptedInitial(addr) ==
    ReduceThenEmit("main", "expensive_accepted_initial_packet_count", "", addr)

RejectedInitial(reason, addr) ==
    ReduceThenEmit("main", "expensive_rejected_initial_packet_count", reason, addr)

Next ==
    \/ \E c \in DirectCalls : Emit("main", c)
    \/ \E a \in PeerIps : AcceptedInitial(a)
    \/ \E r \in QuicInvalidInitialPacketError, a \in PeerIps : RejectedInitial(r, a)

Spec == Init /\ [][Next]_vars

(***************************************************************************)
(* Several callers sharing the registry with no coordination.  A caller's  *)
(* call is made of the steps another caller can come between: the lookup   *)
(* under the read lock, the insert-if-absent under the write lock after a  *)
(* miss, and the atomic operation on the handle.                           *)
(***************************************************************************)
Callers == {"c1", "c2", "c3"}

RaceCalls ==
    {Plain("accepted_initial_packet_count", "", "inc", 0)}
    \cup {Plain("failed_handshakes", r, "inc", 0) :
            r \in {"Timeout", "CryptoFail"}}

NoCall == Plain("", "", "", 0)

InitRace ==
    /\ cells = <<>>
    /\ family = [k \in {} |-> 0]
    /\ report_optional = FALSE
    /\ done = [c \in {} |-> 0]
    /\ budget = [t \in Callers |-> MaxIncs]
    /\ pc = [t \in Callers |-> "idle"]
    /\ req = [t \in Callers |-> NoCall]
    /\ handle = [t \in Callers |-> 0]
    /\ NoReducerRun

\* the method is called: the series is looked up under the read lock
Resolve(t, c) ==
    /\ pc[t] = "idle"
    /\ budget[t] > 0
    /\ req' = [req EXCEPT ![t] = c]
    /\ LET id == Lookup(family, DefaultMetrics(c))
       IN  /\ handle' = [handle EXCEPT ![t] = id]
           /\ pc' = [pc EXCEPT ![t] = IF id # 0 THEN "holding" ELSE "insert"]
    /\ UNCHANGED <<cells, family, report_optional, done, budget,
                   rpc, ip, net, net2>>

\* after a miss: the series is created under the write lock unless another
\* caller created it meanwhile
CreateIfAbsent(t) ==
    /\ pc[t] = "insert"
    /\ LET r == EntryOrInsert(family, cells, DefaultMetrics(req[t]))
       IN  /\ family' = r.fam
           /\ cells' = r.cells
           /\ handle' = [handle EXCEPT ![t] = r.id]
    /\ pc' = [pc EXCEPT ![t] = "holding"]
    /\ UNCHANGED <<report_optional, done, budget, req, rpc, ip, net, net2>>

\* the atomic operation on the handle the method returned
Apply(t) ==
    /\ pc[t] = "holding"
    /\ cells' = [cells EXCEPT ![handle[t]] = ApplyOp(@, req[t])]
    /\ done' = Completed(done, req[t])
    /\ budget' = [budget EXCEPT ![t] = @ - 1]
    /\ pc' = [pc EXCEPT ![t] = "idle"]
    /\ req' = [req EXCEPT ![t] = NoCall]
    /\ handle' = [handle EXCEPT ![t] = 0]
    /\ UNCHANGED <<family, report_optional, rpc, ip, net, net2>>

NextRace ==
    \/ \E t \in Callers, c \in RaceCalls : Resolve(t, c)
    \/ \E t \in Callers : CreateIfAbsent(t)
    \/ \E t \in Callers : Apply(t)

SpecRace == InitRace /\ [][NextRace]_vars

(***************************************************************************)
(* The reducer on its own: an address is reduced, and the result reduced   *)
(* again.                                                                  *)
(***************************************************************************)
\* 203.0.x.y, 10.200.x.y, 255.255.x.y and 0.0.x.y, for every third octet
V4Inputs ==
    {V4(p[1], p[2], c, d) :
        p \in {<<203, 0>>, <<10, 200>>, <<255, 255>>, <<0, 0>>},
        c \in 0..255, d \in {0, 1, 77, 255}}

\* 2001:db8:..., ffff:ffff:... and 0:0:... with host bits of several shapes
V6Inputs ==
    {V6(<<p[1], p[2], s3, s4, s5, 0, s7, s8>>) :
        p \in {<<8193, 3512>>, <<65535, 65535>>, <<0, 0>>},
        s3 \in {0, 1, 43981, 65535}, s4 \in {0, 61185},
        s5 \in {0, 65535}, s7 \in {0, 32768}, s8 \in {0, 1, 65535}}

InitReduce ==
    /\ rpc = "input"
    /\ ip \in V4Inputs \cup V6Inputs
    /\ net = None
    /\ net2 = None
    /\ cells = <<>>
    /\ family = [k \in {} |-> 0]
    /\ report_optional = FALSE
    /\ done = [c \in {} |-> 0]
    /\ budget = [t \in {} |-> 0]
    /\ Idle

Reduce ==
    /\ rpc = "input"
    /\ net' = quic_expensive_metrics_ip_reduce(ip)
    /\ rpc' = "reduced"
    /\ UNCHANGED <<ip, net2, cells, family, report_optional, done, budget,
                   pc, req, handle>>

ReduceAgain ==
    /\ rpc = "reduced"
    /\ net.some
    /\ net2' = quic_expensive_metrics_ip_reduce(net.val)
    /\ rpc' = "again"
    /\ UNCHANGED <<ip, net, cells, family, report_optional, done, budget,
                   pc, req, handle>>

NextReduce == Reduce \/ ReduceAgain

SpecReduce == InitReduce /\ [][NextReduce]_vars

(***************************************************************************)
(* Properties of the reducer.                                              *)
(***************************************************************************)
\* bit i of address a, bit 0 the least significant
Bit(a, i) ==
    LET width == ChunkBits(a)
        chunk == a.w[Len(a.w) - (i \div width)]
    IN  (chunk \div Pow2(i % width)) % 2

HostBits(a) == IF is_ipv4(a) THEN 12 ELSE 96

\* r is a with its lower `low` bits cleared
IsWithLowBitsCleared(r, a, low) ==
    /\ r.fam = a.fam
    /\ Len(r.w) = Len(a.w)
    /\ \A i \in 0..(AddrBits(a) - 1) :
          Bit(r, i) = IF i < low THEN 0 ELSE Bit(a, i)

IsNetworkAddress(a) == \A i \in 0..(HostBits(a) - 1) : Bit(a, i) = 0

Example4 == V4(203, 0, 113, 77)
Example6 == V6(<<8193, 3512, 43981, 61185, 0, 0, 0, 1>>)

\* C1: the reducer returns the IPv4 address with its lower 12 bits cleared
\* and the IPv6 address with its lower 96 bits cleared; 203.0.113.77 gives
\* 203.0.112.0 and 2001:db8:abcd:ef01::1 gives 2001:db8::.
C1_ReduceClearsHostBits ==
    rpc # "input" =>
        /\ net.some
        /\ IsWithLowBitsCleared(net.val, ip, HostBits(ip))
        /\ ip = Example4 => net.val = V4(203, 0, 112, 0)
        /\ ip = Example6 => net.val = V6(<<8193, 3512, 0, 0, 0, 0, 0, 0>>)

C1_Witness ==
    /\ rpc = "reduced"
    /\ ip = Example4
    /\ net = Some(V4(203, 0, 112, 0))

\* C7: the reducer returns Some(network address) for every IPv4 and every
\* IPv6 address; None arises only from a prefix longer than the address.
C7_ReduceNeverFails ==
    /\ rpc # "input" =>
          /\ net.some
          /\ PrefixFor(ip) <= AddrBits(ip)
    /\ rpc = "again" => net2.some

C7_Witness ==
    /\ rpc = "again"
    /\ ip = Example6
    /\ net.some
    /\ net2.some

\* C10: the network address the reducer returns has the family of the
\* address given, and reducing it again returns it unchanged.
C10_ReduceIdempotent ==
    /\ rpc # "input" /\ net.some => net.val.fam = ip.fam
    /\ rpc = "again" => net2 = net

C10_Witness ==
    /\ rpc = "again"
    /\ net.val # ip
    /\ net2 = net
    /\ net.val.fam = "v6"

(***************************************************************************)
(* Properties of the trait and the registry.                               *)
(***************************************************************************)
Made(c) == Count(done, c) > 0

MadeCalls == DOMAIN done

ExpensiveMetrics ==
    {"expensive_accepted_initial_packet_count",
     "expensive_rejected_initial_packet_count"}

\* C2, as claimed: the IP label of every series of the expensive metrics is
\* a reduced network address, whatever peer_ip the methods were given.
C2_OnlyReducedLabels ==
    \A k \in DOMAIN family :
        k.name \in ExpensiveMetrics => IsNetworkAddress(k.peer_ip)

\* C2, amended: the expensive methods attach the peer_ip they are given as
\* it is, so every IP label is an address some call passed, and the label
\* is a network address exactly when the address passed was one already,
\* that is, one the reducer returns unchanged.
C2_LabelIsAddressGiven ==
    /\ \A k \in DOMAIN family :
          k.name \in ExpensiveMetrics =>
              \E c \in MadeCalls :
                  /\ c.method = k.name
                  /\ c.arg = k.label
                  /\ c.peer_ip = k.peer_ip
    /\ \A c \in MadeCalls :
          c.method \in ExpensiveMetrics =>
              LET k == Key("quic", c.method, c.arg, c.peer_ip)
              IN  /\ k \in DOMAIN family
                  /\ IsNetworkAddress(k.peer_ip) <=>
                        quic_expensive_metrics_ip_reduce(c.peer_ip) = Some(c.peer_ip)

\* an unreduced address given directly labels a series, beside a series of
\* an observation made by a reducing call site
C2_Witness ==
    /\ Key("quic", "expensive_accepted_initial_packet_count", "", Example4)
          \in DOMAIN family
    /\ \E c \in MadeCalls : c.via = "call_site" /\ IsNetworkAddress(c.peer_ip)

\* C3: however the callers' resolutions interleave, the registry holds one
\* series per name and label combination, and every caller holding a handle
\* for a combination holds the handle of that one series.
C3_OneHandlePerSeries ==
    /\ \A i, j \in 1..Len(cells) : cells[i].key = cells[j].key => i = j
    /\ \A k \in DOMAIN family :
          family[k] \in 1..Len(cells) /\ cells[family[k]].key = k
    /\ \A t \in Callers :
          pc[t] = "holding" =>
              /\ DefaultMetrics(req[t]) \in DOMAIN family
              /\ handle[t] = family[DefaultMetrics(req[t])]
    /\ \A t, u \in Callers :
          pc[t] = "holding" /\ pc[u] = "holding" /\ req[t] = req[u] =>
              handle[t] = handle[u]

\* a caller missed the series under the read lock and another created it
\* before the first took the write lock; a third holds it too
C3_Witness ==
    \E t, u, v \in Callers :
        /\ t # u /\ u # v /\ t # v
        /\ pc[t] = "insert"
        /\ pc[u] = "holding" /\ pc[v] = "holding"
        /\ req[u] = req[t] /\ req[v] = req[t]
        /\ DefaultMetrics(req[t]) \in DOMAIN family
        /\ handle[u] = handle[v]
        /\ Count(done, req[t]) = 0

\* C4: a counter's value is the number of increments the callers have
\* completed on it, under every interleaving; 2 + 2 + 1 increments of
\* accepted_initial_packet_count by three callers end at 5.
C4_NoLostIncrements ==
    \A c \in RaceCalls :
        LET k == Key("quic", c.method, c.arg, NoIp)
        IN  /\ Made(c) => k \in DOMAIN family
            /\ k \in DOMAIN family => Value(k) = Count(done, c)

C4_Witness ==
    /\ \A t \in Callers : pc[t] = "idle"
    /\ Count(done, Plain("accepted_initial_packet_count", "", "inc", 0)) = 5
    /\ Value(Key("quic", "accepted_initial_packet_count", "", NoIp)) = 5

\* the accumulator of series k, before and after a step
Before(k) == cells[family[k]]
After(k) == cells'[family'[k]]

IsStepOf(c) == done' = Completed(done, c)

\* C5: an increment of the counter failed_handshakes(r) returns raises the
\* r-labelled series by one and leaves every other series as it was.
C5_Step ==
    \A r \in HandshakeError :
        IsStepOf(Plain("failed_handshakes", r, "inc", 0)) =>
            LET k == Key("quic", "failed_handshakes", r, NoIp)
            IN  /\ DOMAIN family' = DOMAIN family \cup {k}
                /\ After(k).v = (IF k \in DOMAIN family THEN Value(k) ELSE 0) + 1
                /\ \A o \in DOMAIN family \ {k} : After(o) = Before(o)

\* C5 as a property of every step: an observation on failed_handshakes(r)
\* changes the series of reason r only.
C5_OnlyThatReason == [][C5_Step]_vars

C5_Witness ==
    /\ Count(done, Plain("failed_handshakes", "Timeout", "inc", 0)) = 1
    /\ Count(done, Plain("failed_handshakes", "CryptoFail", "inc", 0)) = 1
    /\ Value(Key("quic", "failed_handshakes", "Timeout", NoIp)) = 1
    /\ Value(Key("quic", "failed_handshakes", "CryptoFail", NoIp)) = 1

OptionalMethods == ExpensiveMetrics \cup {"maximum_writable_streams"}

\* what is reported: the reported series and their accumulators
Reported == [k \in Collect |-> cells[family[k]]]

\* C6: with optional metrics disabled, a call of an optional metric changes
\* nothing that is reported and no series of an optional metric is reported;
\* enabled or not, it leaves the series of every other metric as they were.
C6_Step ==
    \A c \in AllCalls :
        IsStepOf(c) /\ c.method \in OptionalMethods =>
            /\ ~report_optional => Reported' = Reported
            /\ \A k \in DOMAIN family' :
                  k.name \notin OptionalMethods =>
                      k \in DOMAIN family /\ After(k) = Before(k)

MetricOf(method) ==
    CASE method = "tokio_runtime_task_schedule_delay_histogram" ->
            <<"tokio", "runtime_task_schedule_delay_histogram">>
      [] method = "tokio_runtime_task_poll_duration_histogram" ->
            <<"tokio", "runtime_task_poll_duration_histogram">>
      [] method = "tokio_runtime_task_total_poll_time_micros" ->
            <<"tokio", "runtime_task_total_poll_time_micros">>
      [] OTHER -> <<"quic", method>>

\* the series of call c when the arguments are the labels as they are
SeriesUnchanged(c) ==
    Key(MetricOf(c.method)[1], MetricOf(c.method)[2], c.arg, c.peer_ip)

\* the same, invalid_cid_packet_count labelling with the error's text
SeriesOf(c) ==
    IF c.method = "invalid_cid_packet_count"
    THEN [SeriesUnchanged(c) EXCEPT !.label = to_string(c.arg)]
    ELSE SeriesUnchanged(c)

SumOver(S) ==
    LET RECURSIVE Sum(_)
        Sum(T) == IF T = {} THEN 0
                  ELSE LET x == CHOOSE y \in T : TRUE
                       IN  Count(done, x) + Sum(T \ {x})
    IN  Sum(S)

\* the registry holds the series the calls made are expected to resolve
\* to and no other, and each counter counts the calls of its own series
ResolvesAs(series(_)) ==
    LET made == MadeCalls
    IN  /\ \A c \in made : series(c) \in DOMAIN family
        /\ \A k \in DOMAIN family : \E c \in made : series(c) = k
        /\ \A k \in DOMAIN family :
              Decl(k).kind = "counter" =>
                  Value(k) = SumOver({c \in made : series(c) = k})

Methods == {c.method : c \in AllCalls}

MethodsNameDistinctMetrics ==
    \A m, n \in Methods : m # n => MetricOf(m) # MetricOf(n)

\* C8, as claimed: every method resolves to the metric of its own name with
\* its label parameters unchanged.
C8_LabelsUnchanged == ResolvesAs(SeriesUnchanged)

\* C8, amended: every method resolves to the metric of its own name, with
\* its label arguments as they are except that invalid_cid_packet_count
\* labels with reason.to_string(); distinct methods resolve to distinct
\* metrics, so each of the four close counters counts its own calls only.
C8_OneMetricPerMethod ==
    /\ ResolvesAs(SeriesOf)
    /\ MethodsNameDistinctMetrics
    /\ \A c, d \in MadeCalls :
          c.method # d.method => DefaultMetrics(c) # DefaultMetrics(d)

C8_Witness ==
    /\ Made(Plain("peer_h3_conn_close_error_count", "InternalError", "inc", 0))
    /\ Made(Plain("local_h3_conn_close_error_count", "InternalError", "inc", 0))
    /\ Value(Key("quic", "peer_h3_conn_close_error_count", "InternalError", NoIp)) = 1
    /\ Value(Key("quic", "local_h3_conn_close_error_count", "InternalError", NoIp)) = 1

IsStrictlyIncreasing(b) == \A i \in 1..(Len(b) - 1) : b[i] < b[i + 1]

HistogramMetrics ==
    {"maximum_writable_streams", "handshake_time_seconds",
     "max_bandwidth_mbps", "max_loss_pct",
     "runtime_task_schedule_delay_histogram",
     "runtime_task_poll_duration_histogram"}

\* C9: the bucket boundaries of every histogram are strictly increasing and
\* non-negative, the same for every series of a metric, and no step changes
\* the boundaries of a registered histogram.
C9_State ==
    \A i \in 1..Len(cells) :
        cells[i].key.name \in HistogramMetrics =>
            /\ cells[i].kind = "histogram"
            /\ Len(cells[i].buckets) > 0
            /\ IsStrictlyIncreasing(cells[i].buckets)
            /\ \A j \in 1..Len(cells[i].buckets) : cells[i].buckets[j] >= 0
            /\ \A j \in 1..Len(cells) :
                  (/\ cells[j].key.mod = cells[i].key.mod
                   /\ cells[j].key.name = cells[i].key.name)
                      => cells[j].buckets = cells[i].buckets

C9_Step ==
    \A i \in 1..Len(cells) :
        /\ i <= Len(cells')
        /\ cells'[i].key = cells[i].key
        /\ cells'[i].buckets = cells[i].buckets

\* C9 as a property of every state and step: boundaries are well formed
\* and never change.
C9_BucketsFixed == []C9_State /\ [][C9_Step]_vars

C9_Witness ==
    \E i, j \in 1..Len(cells) :
        /\ i # j
        /\ cells[i].key.name = "handshake_time_seconds"
        /\ cells[j].key.name = "handshake_time_seconds"
        /\ cells[i].v = 1 /\ cells[j].v = 1

====
